---- MODULE Spec2Model ----
(***************************************************************************)
(* Model of afgorelsesportalen/sync.py: the sitemap walk                   *)
(* (_iterate_sitemap_urls), the URL classifiers (_looks_like_decision,     *)
(* _extract_guid, _derive_board_name) and the archive reconciliation       *)
(* (update_decision_knowledge).                                            *)
(*                                                                         *)
(* Strings are sequences of tokens.  A URL is cut at every "/", "?" and    *)
(* "#", which are tokens of their own, so that substring tests on the      *)
(* separators ("/nyhed/" in url) and urlparse's splitting are computed,    *)
(* not assumed.                                                            *)
(***************************************************************************)
EXTENDS Naturals, Integers, Sequences, FiniteSets, TLC

\* ---------------------------------------------------------------- bounds
\* Number of times update_decision_knowledge is run on the same archive.
MaxRuns == 2
\* Nesting depth of generator frames at which the interpreter gives up
\* (sys.getrecursionlimit(), 1000 in CPython, scaled down).
RecursionLimit == 4

\* ---------------------------------------------------------------- strings
Origin == <<"https:", "/", "/", "h">>

S0 == Origin \o <<"/", "sitemap.xml">>
S1 == Origin \o <<"/", "sitemap-1.xml">>
S2 == Origin \o <<"/", "sitemap-2.xml">>
SitemapUrls == {S0, S1, S2}

U1 == Origin \o <<"/", "naevn", "/", "a", "/", "afgoerelse", "/", "g1">>
U2 == Origin \o <<"/", "NAEVN", "/", "A", "/", "Nyhed", "/", "g1">>
U3 == Origin \o <<"/", "b", "/", "afgoerelse", "/", "g1">>
U4 == Origin \o <<"/", "naevn", "/", "a", "/", "afgoerelse", "/", "g2", "?", "x=1", "#", "y">>
U5 == Origin \o <<"/", "om", "?", "ref=", "/", "nyhed", "/", "g1">>
U6 == Origin \o <<"/", "naevn", "/", "a", "/", "kontakt">>
U7 == Origin \o <<"/", "?", "p=", "/", "nyhed", "/">>
PageUrls == {U1, U2, U3, U4, U5, U6, U7}

Whitespace == {" ", "\n"}

\* str.lower() on the tokens of the alphabet.
Lower(t) ==
    CASE t = "NAEVN" -> "naevn"
      [] t = "A" -> "a"
      [] t = "Nyhed" -> "nyhed"
      [] OTHER -> t

\* str.capitalize() on the tokens of the alphabet.
Capitalize(t) ==
    CASE t \in {"a", "A"} -> "A"
      [] t = "b" -> "B"
      [] t = "om" -> "Om"
      [] t = "h" -> "H"
      [] OTHER -> t

LowerAll(s) == [i \in 1..Len(s) |-> Lower(s[i])]

\* str.strip(): drop leading and trailing whitespace tokens.
RECURSIVE LStrip(_)
LStrip(s) == IF s # <<>> /\ Head(s) \in Whitespace THEN LStrip(Tail(s)) ELSE s

RECURSIVE RStrip(_)
RStrip(s) ==
    IF s # <<>> /\ s[Len(s)] \in Whitespace THEN RStrip(SubSeq(s, 1, Len(s) - 1)) ELSE s

Strip(s) == RStrip(LStrip(s))

\* needle in haystack, on token sequences.
Contains(haystack, needle) ==
    \E i \in 1..(Len(haystack) - Len(needle) + 1) :
        SubSeq(haystack, i, i + Len(needle) - 1) = needle

\* urlparse(url): scheme "//" netloc path ["?" query] ["#" fragment].
Netloc(url) == IF Len(url) >= 4 THEN url[4] ELSE ""

AfterNetloc(url) == IF Len(url) > 4 THEN SubSeq(url, 5, Len(url)) ELSE <<>>

RECURSIVE UpToDelimiter(_)
UpToDelimiter(s) ==
    IF s = <<>> \/ Head(s) \in {"?", "#"} THEN <<>>
    ELSE <<Head(s)>> \o UpToDelimiter(Tail(s))

UrlPath(url) == UpToDelimiter(AfterNetloc(url))

\* [segment for segment in path.split("/") if segment]
IsSegment(t) == t # "/"

Segments(path) == SelectSeq(path, IsSegment)

NoGuid == ""

\* _extract_guid (sync.py:244): the last non-empty path segment, or None.
ExtractGuid(url) ==
    LET segments == Segments(UrlPath(url))
    IN  IF segments = <<>> THEN NoGuid ELSE segments[Len(segments)]

\* _derive_board_name (sync.py:255).  The slugs of the alphabet hold no
\* "%", "-" or "_", so the cleaning steps reduce to strip and capitalize.
DeriveBoardName(url) ==
    LET parts == Segments(UrlPath(url))
        slug  == IF Len(parts) >= 2 /\ Lower(parts[1]) \in {"naevn", "nævn"} THEN parts[2]
                 ELSE IF parts # <<>> THEN parts[1]
                 ELSE Netloc(url)
    IN  IF slug = "" THEN Netloc(url) ELSE Capitalize(slug)

\* _looks_like_decision (sync.py:239): substring test on the lowered URL.
LooksLikeDecision(url) ==
    \/ Contains(LowerAll(url), <<"/", "afgoerelse", "/">>)
    \/ Contains(LowerAll(url), <<"/", "nyhed", "/">>)

\* _strip_namespace (sync.py:235): tag.split("}")[-1].
StripNamespace(tag) == IF tag = <<>> THEN "" ELSE tag[Len(tag)]

\* Number of occurrences of x in seq.
Count(seq, x) == Cardinality({i \in DOMAIN seq : seq[i] = x})

\* ---------------------------------------------------------------- the portal
\* A sitemap response: HTTP status, whether the body parses as XML, the root
\* element's tag (with or without a namespace) and the text of its <loc>
\* descendants in document order.
Doc(status, wellformed, tag, locs) ==
    [status |-> status, wellformed |-> wellformed, tag |-> tag, locs |-> locs]

Unfetched == Doc(0, FALSE, <<>>, <<>>)

IndexTag == <<"{", "ns", "}", "sitemapindex">>
UrlsetTag == <<"urlset">>
RssTag == <<"{", "ns", "}", "rss">>

IndexLocs ==
    { <<S1, S2>>,
      << <<" ">>, S1, <<" ">> \o S1 \o <<"\n">> >>,
      <<S2, S0>>,
      <<S2>> }

UrlsetLocs ==
    { <<U1, U2>>,
      <<U6, <<"\n">> \o U3 \o <<" ">>, <<>>, U1>>,
      <<U4, U3, U4>>,
      <<U7, U5, U2>> }

SitemapErrorStatuses == {400, 500}

SitemapBodies ==
    {Doc(200, TRUE, IndexTag, l) : l \in IndexLocs}
        \cup {Doc(200, TRUE, UrlsetTag, l) : l \in UrlsetLocs}
        \cup {Doc(200, TRUE, RssTag, <<>>), Doc(200, FALSE, <<>>, <<>>)}
        \cup {Doc(s, FALSE, <<>>, <<>>) : s \in SitemapErrorStatuses}

PageStatuses == {200, 404}

\* ---------------------------------------------------------------- the archive
ArchiveRoot == <<"knowledge_archive">>

ArchiveDir(board) == <<board, " afgørelser">>

TargetName(guid) == <<guid, ".txt">>

TargetPath(board, guid) == <<ArchiveDir(board), TargetName(guid)>>

\* Path.stem: the file name without its last suffix.
Stem(name) == name[1]

\* A glob whose suffix differs from the one files are written with.
GlobWrongSuffix(files, dir) == {p \in DOMAIN files : p[1] = dir /\ p[2][Len(p[2])] = ".text"}

\* A glob that takes every file of the directory.
GlobAll(files, dir) == {p \in DOMAIN files : p[1] = dir}

\* archive_dir.glob("*.txt"), files only.
GlobTxt(files, dir) == {p \in DOMAIN files : p[1] = dir /\ p[2][Len(p[2])] = ".txt"}

\* The directory listing is not read.
ExistingGuidsEmpty(files, dir) == {}

ExistingGuids(files, dir) == {Stem(p[2]) : p \in GlobTxt(files, dir)}

\* Decision.as_text(): the header names the GUID, the board and the source.
AsText(guid, board, url) == <<"GUID: ", guid, "Board: ", board, "Source: ">> \o url

SeedFiles ==
    { TargetPath("A", "g1"), TargetPath("B", "g1"), <<ArchiveDir("A"), <<"g2", ".md">>>> }

SeedText == <<"seed">>

\* ---------------------------------------------------------------- state
VARIABLES
    site,            \* the portal's sitemap documents, fixed at first request
    stable,          \* whether a decision page answers every request alike
    pageStatus,      \* a stable portal's answer for each decision page
    disk,            \* files under the archive root: path -> text
    dirs,            \* directories under the archive root
    run,             \* number of the current run of update_decision_knowledge
    pc,              \* where the run is
    error,           \* the exception the run ended with, "" if none
    stack,           \* active _iterate_sitemap_urls generators, innermost last
    decision_urls,   \* the URLs yielded so far
    grouped,         \* board -> URLs, in insertion order
    board_idx,       \* position in grouped
    url_idx,         \* position in the board's URLs
    existing_guids,
    added,
    summary,
    sitemap_log,     \* sitemap URLs requested in this run, in order
    requested,       \* decision pages requested in this run and the answers
    written,         \* paths written in this run, in order
    disk_at_start,   \* disk when this run started
    first_run        \* disk and summary at the end of the first run

vars ==
    << site, stable, pageStatus, disk, dirs, run, pc, error, stack, decision_urls, grouped,
       board_idx, url_idx, existing_guids, added, summary, sitemap_log, requested,
       written, disk_at_start, first_run >>

walkVars == <<stack, decision_urls, sitemap_log, site>>
boardVars == <<grouped, board_idx, url_idx, existing_guids, added, summary>>
fileVars == <<disk, dirs, written>>

NoSummary == [b \in {} |-> <<0, 0>>]

Init ==
    /\ site = [u \in SitemapUrls |-> Unfetched]
    /\ stable \in BOOLEAN
    /\ pageStatus = [u \in PageUrls |-> 0]
    /\ \E seed \in SUBSET SeedFiles :
        /\ disk = [p \in seed |-> SeedText]
        /\ dirs = {p[1] : p \in seed} \cup (IF seed = {} THEN {} ELSE {ArchiveRoot})
    /\ run = 0
    /\ pc = "idle"
    /\ error = ""
    /\ stack = <<>>
    /\ decision_urls = <<>>
    /\ grouped = <<>>
    /\ board_idx = 0
    /\ url_idx = 0
    /\ existing_guids = {}
    /\ added = 0
    /\ summary = NoSummary
    /\ sitemap_log = <<>>
    /\ requested = <<>>
    /\ written = <<>>
    /\ disk_at_start = disk
    /\ first_run = [disk |-> disk, summary |-> NoSummary, pc |-> "idle"]

\* ---------------------------------------------------------------- the run starts
\* update_decision_knowledge, sync.py:142-146: the archive root is created and
\* the walk of the sitemap begins.
StartRun ==
    /\ pc \in {"idle", "returned", "raised"}
    /\ run < MaxRuns
    /\ run' = run + 1
    /\ first_run' = IF run = 1 THEN [disk |-> disk, summary |-> summary, pc |-> pc]
                    ELSE first_run
    /\ pc' = "walk"
    /\ error' = ""
    /\ stack' = << [url |-> S0, i |-> 0] >>
    /\ decision_urls' = <<>>
    /\ grouped' = <<>>
    /\ board_idx' = 0
    /\ url_idx' = 0
    /\ existing_guids' = {}
    /\ added' = 0
    /\ summary' = NoSummary
    /\ sitemap_log' = <<>>
    /\ requested' = <<>>
    /\ written' = <<>>
    /\ disk_at_start' = disk
    /\ dirs' = dirs \cup {ArchiveRoot}
    /\ UNCHANGED <<site, stable, pageStatus, disk>>

\* ---------------------------------------------------------------- the walk
Top == stack[Len(stack)]

Pop(s) == SubSeq(s, 1, Len(s) - 1)

\* session.get(url): the portal answers, and answers the same from then on.
SitemapGet(url, body) ==
    /\ site[url] \in {Unfetched, body}
    /\ site' = [site EXCEPT ![url] = body]
    /\ sitemap_log' = Append(sitemap_log, url)

\* The comparison is strict.
SitemapFetchFailedAbove400(status) == status > 400

\* response.status_code >= 400 (sync.py:210)
SitemapFetchFailed(status) == status >= 400

Raise(exc) ==
    /\ pc' = "raised"
    /\ error' = exc

\* for loc in findall(".//{*}loc"): link = loc.text.strip();
\* if _looks_like_decision(link): yield link (sync.py:227-232)
StripAll(locs) == [i \in 1..Len(locs) |-> Strip(locs[i])]

RECURSIVE Dedup(_)
Dedup(seq) ==
    IF seq = <<>> THEN <<>>
    ELSE LET init == Dedup(SubSeq(seq, 1, Len(seq) - 1))
         IN  IF Count(init, seq[Len(seq)]) > 0 THEN init ELSE Append(init, seq[Len(seq)])

\* A urlset's entries with repeated URLs dropped.
QualifyingOnce(locs) == Dedup(SelectSeq(StripAll(locs), LooksLikeDecision))

Qualifying(locs) == SelectSeq(StripAll(locs), LooksLikeDecision)

Getting == pc = "walk" /\ stack # <<>> /\ Top.i = 0

Iterating == pc = "walk" /\ stack # <<>> /\ Top.i >= 1

SitemapHttpError ==
    /\ Getting
    /\ \E body \in SitemapBodies :
        /\ SitemapGet(Top.url, body)
        /\ SitemapFetchFailed(body.status)
    /\ Raise("SitemapError")
    /\ UNCHANGED <<stable, pageStatus, run, stack, decision_urls, boardVars, fileVars,
                   requested, disk_at_start, first_run>>

SitemapMalformed ==
    /\ Getting
    /\ \E body \in SitemapBodies :
        /\ SitemapGet(Top.url, body)
        /\ ~SitemapFetchFailed(body.status)
        /\ ~body.wellformed
    /\ Raise("ParseError")
    /\ UNCHANGED <<stable, pageStatus, run, stack, decision_urls, boardVars, fileVars,
                   requested, disk_at_start, first_run>>

SitemapUnsupported ==
    /\ Getting
    /\ \E body \in SitemapBodies :
        /\ SitemapGet(Top.url, body)
        /\ ~SitemapFetchFailed(body.status)
        /\ body.wellformed
        /\ StripNamespace(body.tag) \notin {"sitemapindex", "urlset"}
    /\ Raise("SitemapError")
    /\ UNCHANGED <<stable, pageStatus, run, stack, decision_urls, boardVars, fileVars,
                   requested, disk_at_start, first_run>>

EnterIndex ==
    /\ Getting
    /\ \E body \in SitemapBodies :
        /\ SitemapGet(Top.url, body)
        /\ ~SitemapFetchFailed(body.status)
        /\ body.wellformed
        /\ StripNamespace(body.tag) = "sitemapindex"
    /\ stack' = [stack EXCEPT ![Len(stack)].i = 1]
    /\ UNCHANGED <<stable, pageStatus, run, pc, error, decision_urls, boardVars, fileVars,
                   requested, disk_at_start, first_run>>

YieldUrlset ==
    /\ Getting
    /\ \E body \in SitemapBodies :
        /\ SitemapGet(Top.url, body)
        /\ ~SitemapFetchFailed(body.status)
        /\ body.wellformed
        /\ StripNamespace(body.tag) = "urlset"
        /\ decision_urls' = decision_urls \o Qualifying(body.locs)
    /\ stack' = Pop(stack)
    /\ UNCHANGED <<stable, pageStatus, run, pc, error, boardVars, fileVars,
                   requested, disk_at_start, first_run>>

ChildLocs == site[Top.url].locs

IndexSkipEmpty ==
    /\ Iterating
    /\ Top.i <= Len(ChildLocs)
    /\ Strip(ChildLocs[Top.i]) = <<>>
    /\ stack' = [stack EXCEPT ![Len(stack)].i = @ + 1]
    /\ UNCHANGED <<stable, pageStatus, run, pc, error, site, sitemap_log, decision_urls,
                   boardVars, fileVars, requested, disk_at_start, first_run>>

IndexRecurse ==
    /\ Iterating
    /\ Top.i <= Len(ChildLocs)
    /\ Strip(ChildLocs[Top.i]) # <<>>
    /\ Len(stack) < RecursionLimit
    /\ stack' = Append([stack EXCEPT ![Len(stack)].i = @ + 1],
                       [url |-> Strip(ChildLocs[Top.i]), i |-> 0])
    /\ UNCHANGED <<stable, pageStatus, run, pc, error, site, sitemap_log, decision_urls,
                   boardVars, fileVars, requested, disk_at_start, first_run>>

\* The nesting of generators reaches the interpreter's limit.
IndexRecursionError ==
    /\ Iterating
    /\ Top.i <= Len(ChildLocs)
    /\ Strip(ChildLocs[Top.i]) # <<>>
    /\ Len(stack) >= RecursionLimit
    /\ Raise("RecursionError")
    /\ UNCHANGED <<stable, pageStatus, run, site, sitemap_log, stack, decision_urls,
                   boardVars, fileVars, requested, disk_at_start, first_run>>

IndexDone ==
    /\ Iterating
    /\ Top.i > Len(ChildLocs)
    /\ stack' = Pop(stack)
    /\ UNCHANGED <<stable, pageStatus, run, pc, error, site, sitemap_log, decision_urls,
                   boardVars, fileVars, requested, disk_at_start, first_run>>

Walk ==
    \/ SitemapHttpError
    \/ SitemapMalformed
    \/ SitemapUnsupported
    \/ EnterIndex
    \/ YieldUrlset
    \/ IndexSkipEmpty
    \/ IndexRecurse
    \/ IndexRecursionError
    \/ IndexDone

\* ---------------------------------------------------------------- grouping
\* grouped.setdefault(board, []).append(decision_url) (sync.py:155)
AddToGroup(g, board, url) ==
    IF \E i \in 1..Len(g) : g[i].board = board
    THEN [i \in 1..Len(g) |->
            IF g[i].board = board THEN [g[i] EXCEPT !.urls = Append(@, url)] ELSE g[i]]
    ELSE Append(g, [board |-> board, urls |-> <<url>>])

\* The loop of sync.py:149-155: URLs without a GUID are dropped, the others
\* are filed under their board, boards in order of first appearance.
RECURSIVE GroupInto(_, _)
GroupInto(g, urls) ==
    IF urls = <<>> THEN g
    ELSE IF ExtractGuid(Head(urls)) = NoGuid THEN GroupInto(g, Tail(urls))
    ELSE GroupInto(AddToGroup(g, DeriveBoardName(Head(urls)), Head(urls)), Tail(urls))

GroupByBoard(urls) == GroupInto(<<>>, urls)

\* decision_urls = list(...) has completed; the URLs are grouped.
GroupUrls ==
    /\ pc = "walk"
    /\ stack = <<>>
    /\ grouped' = GroupByBoard(decision_urls)
    /\ board_idx' = 1
    /\ pc' = "boards"
    /\ UNCHANGED <<stable, pageStatus, run, error, walkVars, url_idx, existing_guids, added,
                   summary, fileVars, requested, disk_at_start, first_run>>

\* ---------------------------------------------------------------- boards
Board == grouped[board_idx].board

Urls == grouped[board_idx].urls

Url == Urls[url_idx]

\* sync.py:160-166
BeginBoard ==
    /\ pc = "boards"
    /\ board_idx <= Len(grouped)
    /\ dirs' = dirs \cup {ArchiveDir(Board)}
    /\ existing_guids' = ExistingGuids(disk, ArchiveDir(Board))
    /\ added' = 0
    /\ url_idx' = 1
    /\ pc' = "urls"
    /\ UNCHANGED <<stable, pageStatus, run, error, walkVars, grouped, board_idx, summary,
                   disk, written, requested, disk_at_start, first_run>>

\* The test against the known set is left out.
AlreadyKnownNever(guid, existing) == guid = NoGuid

\* if not guid or guid in existing_guids: continue (sync.py:169)
AlreadyKnown(guid, existing) == guid = NoGuid \/ guid \in existing

\* The stored identifier is not added to the known set.
RememberNothing(existing, guid) == existing

\* existing_guids.add(guid) (sync.py:180)
Remember(existing, guid) == existing \cup {guid}

\* Only server errors count as failures.
PageFetchFailedServerOnly(status) == status >= 500 /\ status < 600

\* response.raise_for_status() (sync.py:287)
PageFetchFailed(status) == status >= 400 /\ status < 600

\* session.get(url): the portal answers; a stable portal answers the same
\* from then on.
PageGet(url, status) ==
    /\ IF stable
       THEN /\ pageStatus[url] \in {0, status}
            /\ pageStatus' = [pageStatus EXCEPT ![url] = status]
       ELSE UNCHANGED pageStatus
    /\ requested' = Append(requested, [url |-> url, status |-> status])

AtUrl == pc = "urls" /\ url_idx <= Len(Urls)

SkipUrl ==
    /\ AtUrl
    /\ AlreadyKnown(ExtractGuid(Url), existing_guids)
    /\ url_idx' = url_idx + 1
    /\ UNCHANGED <<stable, pageStatus, run, pc, error, walkVars, grouped, board_idx,
                   existing_guids, added, summary, fileVars, requested, disk_at_start,
                   first_run>>

\* _download_decision raises; the URL is logged and skipped (sync.py:174-176).
DownloadFails ==
    /\ AtUrl
    /\ ~AlreadyKnown(ExtractGuid(Url), existing_guids)
    /\ \E status \in PageStatuses :
        /\ PageGet(Url, status)
        /\ PageFetchFailed(status)
    /\ url_idx' = url_idx + 1
    /\ UNCHANGED <<stable, run, pc, error, walkVars, grouped, board_idx, existing_guids, added,
                   summary, fileVars, disk_at_start, first_run>>

\* sync.py:173, 178-181
DownloadAndStore ==
    /\ AtUrl
    /\ ~AlreadyKnown(ExtractGuid(Url), existing_guids)
    /\ \E status \in PageStatuses :
        /\ PageGet(Url, status)
        /\ ~PageFetchFailed(status)
    /\ LET guid == ExtractGuid(Url)
           target_path == <<ArchiveDir(Board), TargetName(guid)>>
       IN  /\ disk' = (target_path :> AsText(guid, Board, Url)) @@ disk
           /\ written' = Append(written, target_path)
           /\ existing_guids' = Remember(existing_guids, guid)
    /\ added' = added + 1
    /\ url_idx' = url_idx + 1
    /\ UNCHANGED <<stable, run, pc, error, walkVars, grouped, board_idx, summary, dirs,
                   disk_at_start, first_run>>

\* summary[board] = (len(existing_guids), added) (sync.py:183)
EndBoard ==
    /\ pc = "urls"
    /\ url_idx > Len(Urls)
    /\ summary' = (Board :> <<Cardinality(existing_guids), added>>) @@ summary
    /\ board_idx' = board_idx + 1
    /\ pc' = "boards"
    /\ UNCHANGED <<stable, pageStatus, run, error, walkVars, grouped, url_idx, existing_guids,
                   added, fileVars, requested, disk_at_start, first_run>>

\* return summary (sync.py:185)
Return ==
    /\ pc = "boards"
    /\ board_idx > Len(grouped)
    /\ pc' = "returned"
    /\ UNCHANGED <<stable, pageStatus, run, error, walkVars, boardVars, fileVars, requested,
                   disk_at_start, first_run>>

Reconcile ==
    \/ GroupUrls
    \/ BeginBoard
    \/ SkipUrl
    \/ DownloadFails
    \/ DownloadAndStore
    \/ EndBoard
    \/ Return

Next == StartRun \/ Walk \/ Reconcile

\* ---------------------------------------------------------------- vocabulary
NoDuplicates(seq) == \A i, j \in DOMAIN seq : i # j => seq[i] # seq[j]

\* The file a decision URL is stored in.
FileOf(url) == TargetPath(DeriveBoardName(url), ExtractGuid(url))

\* The portal refused the request.
Refused(request) == request.status >= 400

RequestedUrls == [i \in DOMAIN requested |-> requested[i].url]

Candidates == {grouped[bk[1]].urls[bk[2]] : bk \in
                  {ij \in (DOMAIN grouped) \X (1..Len(decision_urls)) :
                      ij[2] <= Len(grouped[ij[1]].urls)}}

TxtFilesIn(files, board) ==
    {p \in DOMAIN files : p[1] = <<board, " afgørelser">> /\ p[2][Len(p[2])] = ".txt"}

WrittenIn(board) == {i \in DOMAIN written : written[i][1] = <<board, " afgørelser">>}

WalkCompleted == pc \in {"boards", "urls", "returned"}

\* ---------------------------------------------------------------- C1
\* C1: when the portal answers every request for a page alike, a run after
\* the first one on the same archive leaves the files as the first run left
\* them and reports added = 0 for every board.
C1_Idempotent ==
    (stable /\ run >= 2) =>
        /\ disk = first_run.disk
        /\ pc = "returned" => \A b \in DOMAIN summary : summary[b][2] = 0

C1_Witness ==
    /\ stable
    /\ run = 2
    /\ pc = "returned"
    /\ \E b \in DOMAIN first_run.summary : first_run.summary[b][2] > 0
    /\ \E b \in DOMAIN summary : summary[b][1] > 0
    /\ requested # <<>>

\* ---------------------------------------------------------------- C2
\* C2: every file present when the run starts is still there with the same
\* text at every later moment of the run, and the run writes only to paths
\* that held no file, each at most once.
C2_PureAddition ==
    /\ \A p \in DOMAIN disk_at_start : p \in DOMAIN disk /\ disk[p] = disk_at_start[p]
    /\ \A i \in DOMAIN written : written[i] \notin DOMAIN disk_at_start
    /\ NoDuplicates(written)

C2_Witness ==
    /\ pc = "returned"
    /\ written # <<>>
    /\ \E u \in Candidates : FileOf(u) \in DOMAIN disk_at_start

\* ---------------------------------------------------------------- C3
\* C3: once a sitemap document has answered with a status >= 400, the run
\* has ended with a sitemap error, has requested no decision page and has
\* written no file.
C3_SitemapFailureIsFatal ==
    \A i \in DOMAIN sitemap_log :
        site[sitemap_log[i]].status >= 400 =>
            /\ pc = "raised"
            /\ error = "SitemapError"
            /\ requested = <<>>
            /\ written = <<>>
            /\ disk = disk_at_start

C3_Witness ==
    /\ pc = "raised"
    /\ site[sitemap_log[Len(sitemap_log)]].status >= 400
    /\ Len(stack) >= 2
    /\ decision_urls # <<>>

\* ---------------------------------------------------------------- C4
\* A run in which a page was refused does not end with an exception.
RunSurvivesRefusal == (\E i \in DOMAIN requested : Refused(requested[i])) => pc # "raised"

\* At the end, every candidate URL is stored or was requested and refused.
EveryCandidateHandled ==
    pc = "returned" =>
        \A u \in Candidates :
            \/ FileOf(u) \in DOMAIN disk
            \/ \E i \in DOMAIN requested : requested[i].url = u /\ Refused(requested[i])

\* C4 as claimed: a refused page does not abort the run, every other candidate
\* is handled, and the identifier of a refused page has no file (so it is
\* counted neither in added nor in total).
C4_NoFileForRefusedIdentifier ==
    /\ RunSurvivesRefusal
    /\ EveryCandidateHandled
    /\ \A i \in DOMAIN requested :
        Refused(requested[i]) => FileOf(requested[i].url) \notin DOMAIN disk

\* C4 as amended: a refused page does not abort the run, every other candidate
\* is handled, every file the run wrote holds the text of a page that was
\* fetched successfully, added counts those files, and an identifier all of
\* whose requests were refused has no file.
C4_RefusalIsIsolated ==
    /\ RunSurvivesRefusal
    /\ EveryCandidateHandled
    /\ \A i \in DOMAIN written :
        \E j \in DOMAIN requested :
            /\ ~Refused(requested[j])
            /\ FileOf(requested[j].url) = written[i]
            /\ disk[written[i]] =
                   AsText(ExtractGuid(requested[j].url), DeriveBoardName(requested[j].url),
                          requested[j].url)
    /\ Len(written) = Cardinality({j \in DOMAIN requested : ~Refused(requested[j])})
    /\ \A i \in DOMAIN requested :
        (\A j \in DOMAIN requested :
            FileOf(requested[j].url) = FileOf(requested[i].url) => Refused(requested[j]))
        => FileOf(requested[i].url) \notin DOMAIN disk

C4_Witness ==
    /\ pc = "returned"
    /\ Cardinality(DOMAIN summary) >= 2
    /\ \E i, j, k \in DOMAIN requested :
        /\ i < j
        /\ j < k
        /\ ~Refused(requested[i])
        /\ Refused(requested[j])
        /\ ~Refused(requested[k])
        /\ FileOf(requested[j].url) = FileOf(requested[k].url)

\* ---------------------------------------------------------------- C5
\* C5: a decision page is requested only while its board's directory holds
\* no file for its identifier.
C5_FetchOnlyMissing ==
    [][Len(requested') > Len(requested) =>
          FileOf(requested'[Len(requested')].url) \notin DOMAIN disk]_vars

C5_Witness ==
    /\ pc = "urls"
    /\ requested # <<>>
    /\ \E k \in 1..(url_idx - 1) :
        /\ k <= Len(Urls)
        /\ Count(RequestedUrls, Urls[k]) = 0
        /\ FileOf(Urls[k]) \in DOMAIN disk

\* ---------------------------------------------------------------- C6
\* C6: in the summary a run returns, a board's total is the number of .txt
\* files in its directory, its added is the number of files the run wrote
\* there, and total = files at the start + added.
C6_SummaryAccurate ==
    pc = "returned" =>
        /\ DOMAIN summary = {grouped[i].board : i \in DOMAIN grouped}
        /\ \A b \in DOMAIN summary :
            /\ summary[b][1] = Cardinality(TxtFilesIn(disk, b))
            /\ summary[b][2] = Cardinality(WrittenIn(b))
            /\ summary[b][1] = Cardinality(TxtFilesIn(disk_at_start, b)) + summary[b][2]

C6_Witness ==
    /\ pc = "returned"
    /\ \E b \in DOMAIN summary :
        /\ summary[b][2] >= 1
        /\ summary[b][1] > summary[b][2]
        /\ \E p \in DOMAIN disk : p[1] = ArchiveDir(b) /\ p[2][2] # ".txt"

\* ---------------------------------------------------------------- C7
\* C7 as claimed: whatever the <loc> references, the walk ends by exhausting
\* the documents or with an error of the sitemap (a failed fetch, an unknown
\* root element, malformed XML).
C7_WalkEndsWithUrlsOrSitemapError ==
    pc = "raised" => error \in {"SitemapError", "ParseError"}

\* ---------------------------------------------------------------- C8
\* The URL's path holds a decision-marker segment.
PathHasMarker(url) ==
    \/ Contains(LowerAll(UrlPath(url)), <<"/", "afgoerelse", "/">>)
    \/ Contains(LowerAll(UrlPath(url)), <<"/", "nyhed", "/">>)

KeepLoc(url, byPath) == IF byPath THEN PathHasMarker(url) ELSE LooksLikeDecision(url)

\* The depth-first, document-order sequence of the tree below url.
RECURSIVE DepthFirst(_, _, _), DepthFirstAll(_, _, _)
DepthFirst(url, byPath, fuel) ==
    IF fuel = 0 THEN <<>>
    ELSE IF site[url].tag = IndexTag THEN DepthFirstAll(site[url].locs, byPath, fuel - 1)
    ELSE LET Keep(u) == KeepLoc(u, byPath)
         IN  SelectSeq([i \in 1..Len(site[url].locs) |-> Strip(site[url].locs[i])], Keep)

DepthFirstAll(locs, byPath, fuel) ==
    IF locs = <<>> THEN <<>>
    ELSE (IF Strip(Head(locs)) = <<>> THEN <<>>
          ELSE DepthFirst(Strip(Head(locs)), byPath, fuel))
             \o DepthFirstAll(Tail(locs), byPath, fuel)

\* C8 as claimed: a walk that completes has yielded the depth-first,
\* document-order sequence of the <loc> entries whose path holds a
\* decision-marker segment.
C8_WalkYieldsPathMarked ==
    WalkCompleted => decision_urls = DepthFirst(S0, TRUE, RecursionLimit)

\* The same with the test the code applies, on the whole URL.
WalkYieldsDepthFirst ==
    WalkCompleted => decision_urls = DepthFirst(S0, FALSE, RecursionLimit)

\* ---------------------------------------------------------------- C9
\* C9 as claimed: no two requests of a run are for the same board and
\* identifier.
C9_OneRequestPerIdentifier ==
    \A i, j \in DOMAIN requested :
        i # j => FileOf(requested[i].url) # FileOf(requested[j].url)

\* C9 as amended: no request follows a successful one for the same board and
\* identifier, a URL is requested at most as often as the sitemap lists it,
\* and an identifier that is never stored is requested once per listing.
C9_OneRequestPerListing ==
    /\ \A i, j \in DOMAIN requested :
        (i < j /\ FileOf(requested[i].url) = FileOf(requested[j].url))
            => Refused(requested[i])
    /\ \A u \in PageUrls : Count(RequestedUrls, u) <= Count(decision_urls, u)
    /\ pc = "returned" =>
        \A u \in Candidates :
            FileOf(u) \notin DOMAIN disk => Count(RequestedUrls, u) = Count(decision_urls, u)

C9_Witness ==
    /\ pc = "returned"
    /\ \E i, j \in DOMAIN requested :
        /\ i < j
        /\ requested[i].url = requested[j].url
    /\ \E i, j \in DOMAIN requested :
        /\ i < j
        /\ requested[i].url # requested[j].url
        /\ FileOf(requested[i].url) = FileOf(requested[j].url)
        /\ ~Refused(requested[j])

\* ---------------------------------------------------------------- C10
\* C10 as claimed: the stream of candidate URLs holds no URL twice.
C10_StreamDeduplicated == NoDuplicates(decision_urls)

\* Number of <loc> entries of the urlset documents fetched so far that
\* carry the URL.
RECURSIVE Listed(_, _)
Listed(log, url) ==
    IF log = <<>> THEN 0
    ELSE Listed(Tail(log), url)
            + (IF site[Head(log)].tag = UrlsetTag /\ site[Head(log)].status < 400
               THEN Cardinality({i \in DOMAIN site[Head(log)].locs :
                                    Strip(site[Head(log)].locs[i]) = url})
               ELSE 0)

\* C10 as amended: the stream holds a URL once for every <loc> entry that
\* carries it in the urlset documents the walk has fetched, if it passes the
\* decision filter, and not at all otherwise.
C10_StreamMirrorsListings ==
    \A u \in PageUrls :
        Count(decision_urls, u) = IF LooksLikeDecision(u) THEN Listed(sitemap_log, u) ELSE 0

C10_Witness ==
    /\ WalkCompleted
    /\ Len(sitemap_log) >= 3
    /\ \E u \in PageUrls : Count(decision_urls, u) >= 3

\* ---------------------------------------------------------------- specification
Spec == Init /\ [][Next]_vars

====
